---- MODULE Spec2Model ----
(***************************************************************************)
(* cogni: one run of the chat command.  The command line is parsed into    *)
(* the invocation arguments (src/src/cli.rs), exec (src/src/exec/chat.rs)  *)
(* reads the side channel, merges the messages, builds the request and     *)
(* hands it to Client::create_response (src/src/openai.rs), which encodes  *)
(* the payload and sends it.                                               *)
(*                                                                         *)
(* Conventions.  Text is a sequence of one-character strings.  Option<T>   *)
(* is a sequence of length 0 (None) or 1 (Some).  A JSON object is a       *)
(* function from its keys; a JSON array is a sequence.  An f32 and the     *)
(* JSON number it encodes to are written as their decimal token.           *)
(***************************************************************************)
EXTENDS Integers, Sequences, FiniteSets, TLC

VARIABLES
    cmdline,     \* the command line and OPENAI_API_KEY, as given to the process
    pc,          \* position of the run inside main/exec
    args,        \* the parsed invocation (ChatCompletionArgs), <<>> before parsing
    client,      \* openai::Client, <<>> before Client::new
    channel,     \* what the side channel (stdin or FILE) turned out to be, <<>> before it is looked at
    stdin_reads, \* number of reads started on standard input
    file_msgs,   \* result of read_messages_from_file
    msgs,        \* the merged Conversation
    request,     \* the ResponseRequest, <<>> before it is built
    wire,        \* the HTTP request handed to the transport, <<>> before it is sent
    sent,        \* number of network requests sent
    err,         \* the error exec returned
    reply,       \* the HTTP reply the transport delivered, <<>> before it arrives
    branch,      \* the schema create_response decodes the reply's body with
    response,    \* the Response create_response returned, <<>> before it returns
    out,         \* the bytes that reached standard output
    dest         \* what standard output did with the bytes handed to it

\* the state of the reply's handling
rvars == <<reply, branch, response>>
\* the state of the output stream
ovars == <<out, dest>>

vars == <<cmdline, pc, args, client, channel, stdin_reads, file_msgs, msgs,
          request, wire, sent, err, rvars, ovars>>

-----------------------------------------------------------------------------
(* Bounds of the model. *)

\* longest run of -u/-a/-s flags on the command line
MaxFlags == 3
\* longest text carried by the side channel
MaxText == 2
\* most output items in one reply
MaxItems == 2
\* most content segments in one reply, over all its items
MaxSegments == 2
\* most Choices in a Response handed to the renderer
MaxChoices == 2

-----------------------------------------------------------------------------
(* Option<T> *)

None == <<>>
Some(x) == <<x>>
IsSome(o) == Len(o) = 1
Unwrap(o) == o[1]

(* Text *)

Chars == {"x", " "}

\* char::is_whitespace, on the characters of the model
IsWhitespace(c) == c = " "

Texts(n) == UNION {[1..k -> Chars] : k \in 0..n}

RECURSIVE TrimStart(_)
TrimStart(s) ==
    IF s # <<>> /\ IsWhitespace(Head(s)) THEN TrimStart(Tail(s)) ELSE s

RECURSIVE TrimEnd(_)
TrimEnd(s) ==
    IF s # <<>> /\ IsWhitespace(s[Len(s)])
    THEN TrimEnd(SubSeq(s, 1, Len(s) - 1))
    ELSE s

\* str::trim
Trim(s) == TrimEnd(TrimStart(s))

-----------------------------------------------------------------------------
(* openai.rs: the message model *)

Role == {"System", "Assistant", "User"}

Message_system(content) == [role |-> "System", content |-> content]
Message_user(content) == [role |-> "User", content |-> content]
Message_assistant(content) == [role |-> "Assistant", content |-> content]

ReasoningEffort == {"Low", "Medium", "High"}

Reasoning_from_effort(effort) == [effort |-> effort]

-----------------------------------------------------------------------------
(* The inputs of a run *)

\* The value of the i-th message flag: every flag carries its own text.
FlagValue(i) == <<ToString(i)>>

\* Runs of message flags: -s is accepted at most once by the argument parser.
FlagRuns ==
    LET kinds == UNION {[1..k -> {"u", "a", "s"}] : k \in 0..MaxFlags}
        ok(ks) == Cardinality({i \in DOMAIN ks : ks[i] = "s"}) <= 1
    IN  {[i \in DOMAIN ks |-> [flag |-> ks[i], value |-> FlagValue(i)]] :
            ks \in {x \in kinds : ok(x)}}

Paths == {"-", "notes.txt"}
ApiKeys == {None, Some("ABCDE")}
Models == {"gpt-5", "gpt-4"}
\* f32 values the -t parser accepts, as tokens; NaN is one of them
Temperatures == {"0.7", "NaN"}
Timeouts == {30, 5}
Efforts == {None} \cup {Some(e) : e \in ReasoningEffort}
\* --output_format, or its shorthands --json and --jsonp
OutputFormat == {"Plaintext", "JSON", "JSONPretty"}

CommandLines ==
    [flags : FlagRuns, file : Paths, api_key : ApiKeys, model : Models,
     temperature : Temperatures, timeout : Timeouts, reasoning_effort : Efforts,
     output_format : OutputFormat]

NoError == [context |-> <<>>, source |-> "None"]

Init ==
    /\ cmdline \in CommandLines
    /\ pc = "parse"
    /\ args = <<>>
    /\ client = <<>>
    /\ channel = <<>>
    /\ stdin_reads = 0
    /\ file_msgs = <<>>
    /\ msgs = <<>>
    /\ request = <<>>
    /\ wire = <<>>
    /\ sent = 0
    /\ err = NoError
    /\ reply = <<>>
    /\ branch = "none"
    /\ response = <<>>
    /\ out = <<>>
    /\ dest = "untouched"

-----------------------------------------------------------------------------
(* cli.rs: from the matches to the invocation arguments *)

\* Positions (1-based, in flag order) of the occurrences of flag f.
Occurrences(flags, f) ==
    LET is_f(i) == flags[i].flag = f
    IN  SelectSeq([i \in 1..Len(flags) |-> i], is_f)

\* ArgMatches::get_many: the values of flag f in the order given
get_many(flags, f) ==
    LET occ == Occurrences(flags, f)
    IN  [k \in 1..Len(occ) |-> flags[occ[k]].value]

\* ArgMatches::indices_of: the argv index of each value of flag f.  The
\* parser counts the flag and its value, so the i-th flag's value has index 2i.
indices_of(flags, f) ==
    LET occ == Occurrences(flags, f)
    IN  [k \in 1..Len(occ) |-> 2 * occ[k]]

\* Iterator::zip of messages with indices
zip(ms, idxs) == [k \in 1..Len(ms) |-> [msg |-> ms[k], idx |-> idxs[k]]]

\* One step of the stable sort: e goes after every element whose index is not larger.
InsertByIndex(sorted, e) ==
    LET before == SelectSeq(sorted, LAMBDA p : p.idx <= e.idx)
        after == SelectSeq(sorted, LAMBDA p : p.idx > e.idx)
    IN  before \o <<e>> \o after

RECURSIVE sort_by_index(_)
\* slice::sort_by on the index: a stable sort
sort_by_index(pairs) ==
    IF pairs = <<>>
    THEN <<>>
    ELSE InsertByIndex(sort_by_index(SubSeq(pairs, 1, Len(pairs) - 1)),
                       pairs[Len(pairs)])

\* insert_front with the message pushed at the end instead
insert_back(ms, m) == ms \o <<m>>

\* Vec::insert(0, m)
insert_front(ms, m) == <<m>> \o ms

\* messages_from_matches with the sort left out: one block per role
messages_from_matches_unsorted(flags) ==
    LET users == get_many(flags, "u")
        assts == get_many(flags, "a")
        messages == [k \in DOMAIN users |-> Message_user(users[k])]
                    \o [k \in DOMAIN assts |-> Message_assistant(assts[k])]
        system == get_many(flags, "s")
    IN  IF system # <<>>
        THEN insert_front(messages, Message_system(system[1]))
        ELSE messages

messages_from_matches(flags) ==
    LET users == get_many(flags, "u")
        user_pairs == zip([k \in DOMAIN users |-> Message_user(users[k])],
                          indices_of(flags, "u"))
        assts == get_many(flags, "a")
        asst_pairs == zip([k \in DOMAIN assts |-> Message_assistant(assts[k])],
                          indices_of(flags, "a"))
        sorted == sort_by_index(user_pairs \o asst_pairs)
        messages == [k \in DOMAIN sorted |-> sorted[k].msg]
        system == get_many(flags, "s")
    IN  IF system # <<>>
        THEN insert_front(messages, Message_system(system[1]))
        ELSE messages

\* From<ArgMatches>: the fields of the invocation arguments
ChatCompletionArgs_from(matches) ==
    [messages |-> messages_from_matches(matches.flags),
     file |-> matches.file,
     api_key |-> matches.api_key,
     model |-> matches.model,
     temperature |-> matches.temperature,
     timeout |-> matches.timeout,
     reasoning_effort |-> matches.reasoning_effort,
     output_format |-> matches.output_format]

\* From<ArgMatches> for the invocation arguments
ParseArgs ==
    /\ pc = "parse"
    /\ args' = ChatCompletionArgs_from(cmdline)
    /\ pc' = "client"
    /\ UNCHANGED <<rvars, ovars, cmdline, client, channel, stdin_reads, file_msgs, msgs,
                   request, wire, sent, err>>

-----------------------------------------------------------------------------
(* error.rs and anyhow: an error is its source and the context put around it *)

Err(context, source) == [context |-> context, source |-> source]

\* A Display that gives every error the same text.
Error_display_same(source) == "error"

\* Display for Error (the #[error] texts), up to the value put in; an
\* io::Error that is not wrapped shows the operating system's text
Error_display(source) ==
    CASE source = "NoAPIKey" -> "no API key provided"
      [] source = "FailedToFetch" -> "failed to fetch - "
      [] source = "NoMessagesProvided" -> "no messages provided"
      [] source = "UnexpectedResponse" -> "unexpected response - "
      [] source = "Error::IO" -> "io error - "
      [] source = "JSON" -> "json serialization error - "
      [] source = "OpenAIError" -> "openai api returned error - "
      [] source = "io::Error" -> "os error"

\* exec returns early with e
Fail(e) ==
    /\ err' = e
    /\ pc' = "failed"

-----------------------------------------------------------------------------
(* openai.rs: Client::new *)

Client_new(api_key) == [api_key |-> api_key, base_url |-> "OPENAI_API_ENDPOINT"]

\* A construction that refuses a missing credential at once.
ClientNew_checks_key ==
    /\ pc = "client"
    /\ client' = Client_new(args.api_key)
    /\ IF IsSome(args.api_key)
         THEN pc' = "read" /\ UNCHANGED err
         ELSE Fail(Err(<<"failed to create http client">>, "NoAPIKey"))
    /\ UNCHANGED <<rvars, ovars, cmdline, args, channel, stdin_reads, file_msgs, msgs,
                   request, wire, sent>>

ClientNew ==
    /\ pc = "client"
    /\ client' = Client_new(args.api_key)
    /\ pc' = "read"
    /\ UNCHANGED <<rvars, ovars, cmdline, args, channel, stdin_reads, file_msgs, msgs,
                   request, wire, sent, err>>

-----------------------------------------------------------------------------
(* parse.rs and exec/chat.rs: the side channel *)

\* What the environment can present for path `file`: for "-", standard input
\* is a terminal or not; for a path, the file opens or not; a reader that was
\* obtained delivers its text or fails while being read.
Channels(file) ==
    LET readers(tty, opens) ==
            {[is_terminal |-> tty, opens |-> opens, reads |-> TRUE, text |-> t] :
                t \in Texts(MaxText)}
            \cup {[is_terminal |-> tty, opens |-> opens, reads |-> FALSE, text |-> <<>>]}
    IN  IF file = "-"
        THEN {[is_terminal |-> TRUE, opens |-> FALSE, reads |-> FALSE, text |-> <<>>]}
             \cup readers(FALSE, FALSE)
        ELSE {[is_terminal |-> FALSE, opens |-> FALSE, reads |-> FALSE, text |-> <<>>]}
             \cup readers(FALSE, TRUE)

\* parse_messages with the trimmed text put into the message
parse_messages_trimmed(input) ==
    IF ~input.reads
    THEN [ok |-> FALSE, msgs |-> <<>>, source |-> "Error::IO"]
    ELSE LET content == Trim(input.text)
         IN  IF content = <<>>
             THEN [ok |-> TRUE, msgs |-> <<>>, source |-> "None"]
             ELSE [ok |-> TRUE, msgs |-> <<Message_user(content)>>, source |-> "None"]

\* parse_messages: Ok(messages) or Err(Error::IO)
parse_messages(input) ==
    IF ~input.reads
    THEN [ok |-> FALSE, msgs |-> <<>>, source |-> "Error::IO"]
    ELSE LET content == input.text
         IN  IF Trim(content) = <<>>
             THEN [ok |-> TRUE, msgs |-> <<>>, source |-> "None"]
             ELSE [ok |-> TRUE, msgs |-> <<Message_user(content)>>, source |-> "None"]

\* open_reader with the terminal test left out: "-" always reads standard input
open_reader_always_stdin(file, ch) ==
    IF file = "-"
    THEN [ok |-> TRUE, r |-> Some("stdin")]
    ELSE IF ch.opens
         THEN [ok |-> TRUE, r |-> Some("file")]
         ELSE [ok |-> FALSE, r |-> None]

\* open_reader with a file that does not open taken as no reader
open_reader_missing_is_none(file, ch) ==
    IF file = "-"
    THEN IF ch.is_terminal
         THEN [ok |-> TRUE, r |-> None]
         ELSE [ok |-> TRUE, r |-> Some("stdin")]
    ELSE IF ch.opens
         THEN [ok |-> TRUE, r |-> Some("file")]
         ELSE [ok |-> TRUE, r |-> None]

\* read_messages_from_file, lines 57-67: the reader chosen for `file`
open_reader(file, ch) ==
    IF file = "-"
    THEN IF ch.is_terminal
         THEN [ok |-> TRUE, r |-> None]
         ELSE [ok |-> TRUE, r |-> Some("stdin")]
    ELSE IF ch.opens
         THEN [ok |-> TRUE, r |-> Some("file")]
         ELSE [ok |-> FALSE, r |-> None]

\* read_messages_from_file: the reader, then its messages.  stdin_reads
\* counts the reads started on standard input.
read_messages_from_file(file, ch) ==
    LET reader == open_reader(file, ch)
    IN  IF ~reader.ok
        THEN [ok |-> FALSE, msgs |-> <<>>, source |-> "io::Error", stdin_reads |-> 0]
        ELSE IF reader.r = None
        THEN [ok |-> TRUE, msgs |-> <<>>, source |-> "None", stdin_reads |-> 0]
        ELSE LET res == parse_messages(ch)
             IN  [ok |-> res.ok, msgs |-> res.msgs, source |-> res.source,
                  stdin_reads |-> IF Unwrap(reader.r) = "stdin" THEN 1 ELSE 0]

\* exec, lines 20-21: read the side channel, or fail naming the path
ReadMessagesFromFile ==
    /\ pc = "read"
    /\ \E ch \in Channels(args.file) :
        LET res == read_messages_from_file(args.file, ch)
        IN  /\ channel' = ch
            /\ stdin_reads' = stdin_reads + res.stdin_reads
            /\ IF res.ok
               THEN /\ file_msgs' = res.msgs
                    /\ pc' = "merge"
                    /\ UNCHANGED err
               ELSE /\ Fail(Err(<<"failed to open", args.file>>, res.source))
                    /\ UNCHANGED file_msgs
    /\ UNCHANGED <<rvars, ovars, cmdline, args, client, msgs, request, wire, sent>>

\* concat with the side-channel messages put first
concat_side_first(flag_msgs, side_msgs) == side_msgs \o flag_msgs

\* exec, line 23: [args.messages.clone(), file_msgs].concat()
concat(flag_msgs, side_msgs) == flag_msgs \o side_msgs

\* is_empty with the check never firing
is_empty_never(ms) == FALSE

\* exec, line 25: msgs.is_empty()
is_empty(ms) == Len(ms) = 0

\* exec, lines 23-27
MergeMessages ==
    /\ pc = "merge"
    /\ LET merged == concat(args.messages, file_msgs)
       IN  /\ msgs' = merged
           /\ IF is_empty(merged)
              THEN Fail(Err(<<>>, "NoMessagesProvided"))
              ELSE /\ pc' = "build"
                   /\ UNCHANGED err
    /\ UNCHANGED <<rvars, ovars, cmdline, args, client, channel, stdin_reads, file_msgs,
                   request, wire, sent>>

-----------------------------------------------------------------------------
(* exec/chat.rs: the request builder *)

\* exec, lines 30-44: reasoning keeps the builder's default None unless an
\* effort was given
build_request(a, ms) ==
    [model |-> a.model,
     messages |-> ms,
     temperature |-> a.temperature,
     timeout |-> a.timeout,
     reasoning |-> IF IsSome(a.reasoning_effort)
                   THEN Some(Reasoning_from_effort(Unwrap(a.reasoning_effort)))
                   ELSE None]

BuildRequest ==
    /\ pc = "build"
    /\ request' = build_request(args, msgs)
    /\ pc' = "create_response"
    /\ UNCHANGED <<rvars, ovars, cmdline, args, client, channel, stdin_reads, file_msgs,
                   msgs, wire, sent, err>>

-----------------------------------------------------------------------------
(* openai.rs: the request encoder.  JSON scalars are tagged values. *)

JsonString(s) == [t |-> "string", v |-> s]
JsonNumber(tok) == [t |-> "number", v |-> tok]
JsonNull == [t |-> "null", v |-> ""]

\* serde_json's Map::insert
ObjInsert(obj, key, value) ==
    [k \in DOMAIN obj \cup {key} |-> IF k = key THEN value ELSE obj[k]]

\* Role::as_str
Role_as_str(role) ==
    CASE role = "System" -> "system"
      [] role = "Assistant" -> "assistant"
      [] role = "User" -> "user"

\* Serialize for ReasoningEffort, rename_all = "lowercase"
ReasoningEffort_serialize(effort) ==
    CASE effort = "Low" -> "low"
      [] effort = "Medium" -> "medium"
      [] effort = "High" -> "high"

\* serde_json::to_value(reasoning)
Reasoning_to_value(reasoning) ==
    [effort |-> JsonString(ReasoningEffort_serialize(reasoning.effort))]

\* json!(f32): a finite value is a number, NaN and the infinities are null
f32_to_value(x) ==
    IF x \in {"NaN", "inf", "-inf"} THEN JsonNull ELSE JsonNumber(x)

\* to_responses_input with the role written as the variant's name
to_responses_input_variant_name(m) ==
    [role |-> JsonString(m.role),
     content |-> <<[type |-> JsonString("text"), text |-> JsonString(m.content)]>>]

\* Message::to_responses_input
to_responses_input(m) ==
    [role |-> JsonString(Role_as_str(m.role)),
     content |-> <<[type |-> JsonString("text"), text |-> JsonString(m.content)]>>]

\* to_payload with the reasoning field serialized as it stands: null when unset
to_payload_reasoning_always(req) ==
    LET input == [k \in DOMAIN req.messages |-> to_responses_input(req.messages[k])]
        payload == [model |-> JsonString(req.model),
                    input |-> input,
                    temperature |-> f32_to_value(req.temperature)]
    IN  ObjInsert(payload, "reasoning",
                  IF IsSome(req.reasoning)
                  THEN Reasoning_to_value(Unwrap(req.reasoning))
                  ELSE JsonNull)

\* ResponseRequest::to_payload
to_payload(req) ==
    LET input == [k \in DOMAIN req.messages |-> to_responses_input(req.messages[k])]
        payload == [model |-> JsonString(req.model),
                    input |-> input,
                    temperature |-> f32_to_value(req.temperature)]
    IN  IF IsSome(req.reasoning)
        THEN ObjInsert(payload, "reasoning", Reasoning_to_value(Unwrap(req.reasoning)))
        ELSE payload

\* Client::create_response, lines 134-141: the request given to the transport
post(c, api_key, req) ==
    [path |-> "/v1/responses",
     bearer_auth |-> api_key,
     timeout |-> req.timeout,
     content_type |-> "application/json",
     json |-> to_payload(req)]

\* A create_response that sends without looking at the credential.
CreateResponse_no_key_check ==
    /\ pc = "create_response"
    /\ wire' = post(client, client.api_key, request)
    /\ sent' = sent + 1
    /\ pc' = "awaiting"
    /\ UNCHANGED <<rvars, ovars, cmdline, args, client, channel, stdin_reads, file_msgs,
                   msgs, request, err>>

\* Client::create_response up to send(): no key, no request
CreateResponse ==
    /\ pc = "create_response"
    /\ IF ~IsSome(client.api_key)
       THEN /\ Fail(Err(<<"failed to fetch request">>, "NoAPIKey"))
            /\ UNCHANGED <<wire, sent>>
       ELSE /\ wire' = post(client, Unwrap(client.api_key), request)
            /\ sent' = sent + 1
            /\ pc' = "awaiting"
            /\ UNCHANGED err
    /\ UNCHANGED <<rvars, ovars, cmdline, args, client, channel, stdin_reads, file_msgs,
                   msgs, request>>

-----------------------------------------------------------------------------
(* The replies a server can give *)

\* StatusCode::OK
StatusCode_OK == 200

Statuses == {200, 201, 400}

\* Content segments as they arrive: the two textual types, an empty text, and
\* a type the client does not know, which carries a text of its own.
Segments ==
    {[type |-> "output_text", text |-> <<"a">>],
     [type |-> "text", text |-> <<"b">>],
     [type |-> "text", text |-> <<>>],
     [type |-> "refusal", text |-> <<"r">>]}

\* Type and role of an output item; role is optional.
ItemHeads ==
    {[item_type |-> "message", role |-> None],
     [item_type |-> "message", role |-> Some("Assistant")],
     [item_type |-> "message", role |-> Some("User")],
     [item_type |-> "reasoning", role |-> None]}

\* The ways to cut a run of m segments into k consecutive pieces: c[i] is
\* where the piece of item i ends.
Cuts(k, m) ==
    {c \in [1..k -> 0..m] :
        /\ k = 0 => m = 0
        /\ k > 0 => c[k] = m
        /\ \A i \in 1..(k - 1) : c[i] <= c[i + 1]}

\* The output list whose item i has the head heads[i] and the i-th piece of
\* the segments.
OutputList(heads, segments, cuts) ==
    [i \in DOMAIN heads |->
        [content |-> SubSeq(segments, (IF i = 1 THEN 0 ELSE cuts[i - 1]) + 1, cuts[i]),
         item_type |-> heads[i].item_type,
         role |-> heads[i].role]]

\* Output lists of exactly k items holding exactly m segments together.
OutputLists(k, m) ==
    {OutputList(h, s, c) :
        h \in [1..k -> ItemHeads], s \in [1..m -> Segments], c \in Cuts(k, m)}

\* DateTime<Utc>: whole seconds since the epoch and the nanoseconds within
\* the second
DateTime(secs, nanos) == [nanos |-> nanos, secs |-> secs]

\* ts_seconds::deserialize: an integer of seconds
ts_seconds_deserialize(secs) == DateTime(secs, 0)

Usages ==
    {[input_tokens |-> 8, output_tokens |-> 9, total_tokens |-> 17],
     [input_tokens |-> 1, output_tokens |-> 1, total_tokens |-> 5]}

\* Bodies that decode as APIErrorContainer
APIErrors ==
    [message : {"1000 is greater than the maximum of 2"},
     error_type : {"invalid_request_error"},
     param : {None, Some("temperature")},
     code : {None}]

\* Replies whose body decodes as ResponsesAPIResponse, with k output items
\* and m segments.
SuccessReplies(k, m) ==
    {[body |-> [schema |-> "success",
                value |-> [created |-> ts_seconds_deserialize(1688413145),
                           model |-> "gpt-5", output |-> o, usage |-> u]],
      status |-> st] :
        st \in Statuses, u \in Usages, o \in OutputLists(k, m)}

\* Replies whose body is a provider-error envelope, or is of neither schema
\* (not JSON, cut short, another shape).
OtherReplies ==
    [status : Statuses,
     body : [schema : {"error"}, value : APIErrors]
            \cup {[schema |-> "other", value |-> <<>>]}]

MessageItem(role, segs) == [item_type |-> "message", role |-> role, content |-> segs]

SuccessBody(output) ==
    [schema |-> "success",
     value |-> [created |-> ts_seconds_deserialize(1688413145), model |-> "gpt-5", output |-> output,
                usage |-> [input_tokens |-> 8, output_tokens |-> 9, total_tokens |-> 17]]]

\* The replies a whole run is checked against: one assistant message, two
\* message items, a reasoning item alone, a body that does not decode, and a
\* provider rejection.
SampleReplies ==
    {[status |-> 200, body |-> SuccessBody(
        <<MessageItem(Some("Assistant"), <<[type |-> "output_text", text |-> <<"a">>]>>)>>)],
     [status |-> 200, body |-> SuccessBody(
        <<MessageItem(Some("Assistant"), <<[type |-> "output_text", text |-> <<"a">>]>>),
          MessageItem(None, <<[type |-> "text", text |-> <<"b">>]>>)>>)],
     [status |-> 200, body |-> SuccessBody(
        <<[item_type |-> "reasoning", role |-> None,
           content |-> <<[type |-> "text", text |-> <<"b">>]>>]>>)],
     [status |-> 200, body |-> [schema |-> "other", value |-> <<>>]],
     [status |-> 400, body |->
        [schema |-> "error",
         value |-> [message |-> "1000 is greater than the maximum of 2",
                    error_type |-> "invalid_request_error",
                    param |-> None, code |-> None]]]}

-----------------------------------------------------------------------------
(* openai.rs: the response normalizer *)

\* An as_text that knows output_text only.
as_text_output_text_only(part) ==
    IF part.type = "output_text" THEN Some(part.text) ELSE None

\* ResponseContent::as_text
as_text(part) ==
    IF part.type = "output_text" THEN Some(part.text)
    ELSE IF part.type = "text" THEN Some(part.text)
    ELSE None

RECURSIVE push_texts(_, _)
\* aggregated_text, lines 303-307: push_str of every textual part, in order
push_texts(parts, aggregated) ==
    IF parts = <<>>
    THEN aggregated
    ELSE LET text == as_text(Head(parts))
         IN  push_texts(Tail(parts),
                        IF IsSome(text) THEN aggregated \o Unwrap(text) ELSE aggregated)

\* An aggregated_text that gives the empty text for Some.
aggregated_text_allow_empty(output) == Some(push_texts(output.content, <<>>))

\* ResponseOutput::aggregated_text
aggregated_text(output) ==
    LET aggregated == push_texts(output.content, <<>>)
    IN  IF aggregated = <<>> THEN None ELSE Some(aggregated)

\* A filter that lets every item through.
is_message_any(output) == TRUE

\* try_from, line 324: output.item_type != "message" is skipped
is_message(output) == output.item_type = "message"

\* A role that is Assistant whatever the item declares.
choice_role_always_assistant(output) == "Assistant"

\* try_from, line 333: output.role.unwrap_or(Role::Assistant)
choice_role(output) ==
    IF IsSome(output.role) THEN Unwrap(output.role) ELSE "Assistant"

RECURSIVE collect_choices_skip_empty(_, _)
\* A loop that passes over a message item without text.
collect_choices_skip_empty(outputs, choices) ==
    IF outputs = <<>>
    THEN [ok |-> TRUE, choices |-> choices, error |-> ""]
    ELSE LET output == Head(outputs)
             text == aggregated_text(output)
         IN  IF ~is_message(output) \/ ~IsSome(text)
             THEN collect_choices_skip_empty(Tail(outputs), choices)
             ELSE collect_choices_skip_empty(
                      Tail(outputs),
                      Append(choices,
                             [message |-> [role |-> choice_role(output),
                                           content |-> Unwrap(text)],
                              finish_reason |-> "Stop"]))

RECURSIVE collect_choices(_, _)
\* try_from, lines 323-341: the loop over the output items
collect_choices(outputs, choices) ==
    IF outputs = <<>>
    THEN [ok |-> TRUE, choices |-> choices, error |-> ""]
    ELSE LET output == Head(outputs)
         IN  IF ~is_message(output)
             THEN collect_choices(Tail(outputs), choices)
             ELSE LET text == aggregated_text(output)
                  IN  IF ~IsSome(text)
                      THEN [ok |-> FALSE, choices |-> <<>>,
                            error |-> "response message missing text content"]
                      ELSE collect_choices(
                               Tail(outputs),
                               Append(choices,
                                      [message |-> [role |-> choice_role(output),
                                                    content |-> Unwrap(text)],
                                       finish_reason |-> "Stop"]))

\* A conversion that reports the total as the sum of the two counts.
try_from_total_is_sum(value) ==
    LET res == collect_choices(value.output, <<>>)
    IN  IF ~res.ok \/ res.choices = <<>>
        THEN [ok |-> FALSE, error |-> "rejected", response |-> <<>>]
        ELSE [ok |-> TRUE, error |-> "",
              response |-> [created |-> value.created,
                            choices |-> res.choices,
                            model |-> value.model,
                            usage |-> [input_tokens |-> value.usage.input_tokens,
                                       output_tokens |-> value.usage.output_tokens,
                                       total_tokens |-> value.usage.input_tokens
                                                        + value.usage.output_tokens]]]

\* TryFrom<ResponsesAPIResponse> for Response
try_from(value) ==
    LET res == collect_choices(value.output, <<>>)
    IN  IF ~res.ok
        THEN [ok |-> FALSE, error |-> res.error, response |-> <<>>]
        ELSE IF res.choices = <<>>
        THEN [ok |-> FALSE,
              error |-> "response did not contain any assistant messages",
              response |-> <<>>]
        ELSE [ok |-> TRUE, error |-> "",
              response |-> [created |-> value.created,
                            choices |-> res.choices,
                            model |-> value.model,
                            usage |-> [input_tokens |-> value.usage.input_tokens,
                                       output_tokens |-> value.usage.output_tokens,
                                       total_tokens |-> value.usage.total_tokens]]]

-----------------------------------------------------------------------------
(* openai.rs: Response as JSON (derive Serialize, Deserialize) *)

FinishReason == {"Stop", "Length", "FunctionCall", "ContentFilter"}

\* Serialize for Role, rename_all = "lowercase"
Role_serialize(role) ==
    CASE role = "System" -> "system"
      [] role = "Assistant" -> "assistant"
      [] role = "User" -> "user"

\* Deserialize for Role
Role_deserialize(token) ==
    CASE token = "system" -> "System"
      [] token = "assistant" -> "Assistant"
      [] token = "user" -> "User"

\* Serialize for FinishReason, rename_all = "snake_case"
FinishReason_serialize(reason) ==
    CASE reason = "Stop" -> "stop"
      [] reason = "Length" -> "length"
      [] reason = "FunctionCall" -> "function_call"
      [] reason = "ContentFilter" -> "content_filter"

\* Deserialize for FinishReason
FinishReason_deserialize(token) ==
    CASE token = "stop" -> "Stop"
      [] token = "length" -> "Length"
      [] token = "function_call" -> "FunctionCall"
      [] token = "content_filter" -> "ContentFilter"

\* ts_seconds::serialize: the timestamp in whole seconds
ts_seconds_serialize(dt) == dt.secs

\* Serialize for Response: the JSON value, keys in field order
Response_serialize(resp) ==
    [created |-> ts_seconds_serialize(resp.created),
     choices |-> [i \in DOMAIN resp.choices |->
                    [message |-> [role |-> Role_serialize(resp.choices[i].message.role),
                                  content |-> resp.choices[i].message.content],
                     finish_reason |->
                         FinishReason_serialize(resp.choices[i].finish_reason)]],
     model |-> resp.model,
     usage |-> [input_tokens |-> resp.usage.input_tokens,
                output_tokens |-> resp.usage.output_tokens,
                total_tokens |-> resp.usage.total_tokens]]

\* Deserialize for Response
Response_deserialize(json) ==
    [created |-> ts_seconds_deserialize(json.created),
     choices |-> [i \in DOMAIN json.choices |->
                    [message |-> [role |-> Role_deserialize(json.choices[i].message.role),
                                  content |-> json.choices[i].message.content],
                     finish_reason |->
                         FinishReason_deserialize(json.choices[i].finish_reason)]],
     model |-> json.model,
     usage |-> [input_tokens |-> json.usage.input_tokens,
                output_tokens |-> json.usage.output_tokens,
                total_tokens |-> json.usage.total_tokens]]

(* serde_json's two formatters.  Written text is a sequence of pieces, each a
   string; its bytes are the pieces one after the other. *)

\* a line break and the indentation of depth d; nothing in the compact form
Indent(d, pretty) == IF pretty THEN <<"\n">> \o [i \in 1..d |-> "  "] ELSE <<>>

\* what stands between a key and its value
Colon(pretty) == IF pretty THEN <<":", " ">> ELSE <<":">>

\* a JSON string of the text
Quoted(text) == <<"\"">> \o text \o <<"\"">>

RECURSIVE Members(_, _, _)
\* the members of an object of depth d; m[i] is a key and the written value
Members(d, pretty, m) ==
    IF m = <<>>
    THEN <<>>
    ELSE Indent(d + 1, pretty) \o Quoted(<<Head(m).key>>) \o Colon(pretty)
         \o Head(m).value
         \o (IF Len(m) > 1 THEN <<",">> ELSE <<>>)
         \o Members(d, pretty, Tail(m))

\* an object of depth d
Object(d, pretty, m) ==
    <<"{">> \o Members(d, pretty, m) \o Indent(d, pretty) \o <<"}">>

RECURSIVE Elements(_, _, _)
\* the elements of an array of depth d, each already written
Elements(d, pretty, e) ==
    IF e = <<>>
    THEN <<>>
    ELSE Indent(d + 1, pretty) \o Head(e)
         \o (IF Len(e) > 1 THEN <<",">> ELSE <<>>)
         \o Elements(d, pretty, Tail(e))

\* an array of depth d; the empty array is [] in both forms
Array(d, pretty, e) ==
    IF e = <<>>
    THEN <<"[", "]">>
    ELSE <<"[">> \o Elements(d, pretty, e) \o Indent(d, pretty) \o <<"]">>

Member(key, value) == [key |-> key, value |-> value]

\* a Choice of the JSON value, written at depth d
WriteChoice(d, pretty, choice) ==
    Object(d, pretty,
           <<Member("message",
                    Object(d + 1, pretty,
                           <<Member("role", Quoted(<<choice.message.role>>)),
                             Member("content", Quoted(choice.message.content))>>)),
             Member("finish_reason", Quoted(<<choice.finish_reason>>))>>)

\* the JSON value of a Response, written
WriteResponse(pretty, json) ==
    Object(0, pretty,
           <<Member("created", <<ToString(json.created)>>),
             Member("choices",
                    Array(1, pretty,
                          [i \in DOMAIN json.choices |->
                              WriteChoice(2, pretty, json.choices[i])])),
             Member("model", Quoted(<<json.model>>)),
             Member("usage",
                    Object(1, pretty,
                           <<Member("input_tokens", <<ToString(json.usage.input_tokens)>>),
                             Member("output_tokens", <<ToString(json.usage.output_tokens)>>),
                             Member("total_tokens", <<ToString(json.usage.total_tokens)>>)>>))>>)

\* serde_json::to_string
to_string(resp) == WriteResponse(FALSE, Response_serialize(resp))

\* serde_json::to_string_pretty
to_string_pretty(resp) == WriteResponse(TRUE, Response_serialize(resp))

-----------------------------------------------------------------------------
(* openai.rs: Client::create_response from send() on *)

\* an error with what it carries
ErrDetail(context, source, detail) ==
    [context |-> context, source |-> source, detail |-> detail]

\* A transport that sends the request again when the call fails.
Receive_retry(replies) ==
    /\ pc = "awaiting"
    /\ \/ /\ pc' = "create_response"
          /\ UNCHANGED <<err, rvars>>
       \/ /\ \E r \in replies : reply' = r
          /\ pc' = "status"
          /\ UNCHANGED <<err, branch, response>>
    /\ UNCHANGED <<ovars, cmdline, args, client, channel, stdin_reads, file_msgs,
                   msgs, request, wire, sent>>

\* send().await resolves: the transport fails (no connection, or the deadline
\* passes), or a reply arrives
Receive(replies) ==
    /\ pc = "awaiting"
    /\ \/ /\ \E cause \in {"connect", "timeout"} :
                Fail(ErrDetail(<<"failed to fetch request">>, "FailedToFetch", cause))
          /\ UNCHANGED rvars
       \/ /\ \E r \in replies : reply' = r
          /\ pc' = "status"
          /\ UNCHANGED <<err, branch, response>>
    /\ UNCHANGED <<ovars, cmdline, args, client, channel, stdin_reads, file_msgs,
                   msgs, request, wire, sent>>

\* create_response, lines 145-160: the match on the status, the body's
\* decoding and the normalization; exec puts its context on an error
DecodeReply ==
    /\ pc = "status"
    /\ IF reply.status = StatusCode_OK
       THEN /\ branch' = "success"
            /\ IF reply.body.schema = "success"
               THEN LET res == try_from(reply.body.value)
                    IN  IF res.ok
                        THEN /\ response' = res.response
                             /\ pc' = "show"
                             /\ UNCHANGED err
                        ELSE /\ Fail(ErrDetail(<<"failed to fetch request">>,
                                               "UnexpectedResponse", res.error))
                             /\ UNCHANGED response
               ELSE /\ Fail(ErrDetail(<<"failed to fetch request">>,
                                      "FailedToFetch", "decode"))
                    /\ UNCHANGED response
       ELSE /\ branch' = "error"
            /\ UNCHANGED response
            /\ IF reply.body.schema = "error"
               THEN Fail(ErrDetail(<<"failed to fetch request">>,
                                   "OpenAIError", reply.body.value))
               ELSE Fail(ErrDetail(<<"failed to fetch request">>,
                                   "FailedToFetch", "decode"))
    /\ UNCHANGED <<ovars, cmdline, args, client, channel, stdin_reads, file_msgs,
                   msgs, request, wire, sent, reply>>

-----------------------------------------------------------------------------
(* exec/chat.rs: show_response *)

\* A choice picker that takes the first Choice of any non-empty list.
sole_choice_first(resp) ==
    IF Len(resp.choices) >= 1 THEN Some(resp.choices[1]) ELSE None

\* show_response, lines 78-86: the Choice of a Response that has exactly one
sole_choice(resp) ==
    IF Len(resp.choices) = 1 THEN Some(resp.choices[1]) ELSE None

\* A test that takes every finish reason for Stop.
is_stop_any(reason) == TRUE

\* show_response, lines 88-89 and 99: the arm FinishReason::Stop
is_stop(reason) == reason = "Stop"

\* A rendering that knows Plaintext only.
render_plaintext_only(format, resp, choice) == choice.message.content

\* show_response, lines 90-96: the output of the format
render(format, resp, choice) ==
    CASE format = "Plaintext" -> choice.message.content
      [] format = "JSON" -> to_string(resp)
      [] format = "JSONPretty" -> to_string_pretty(resp)

\* show_response, line 97: writeln!(writer, "{}", output)
writeln(output) == output \o <<"\n">>

\* A show_response that writes the Response before it looks at it.
show_response_writes_first(accepts, format, resp) ==
    LET choice == sole_choice(resp)
        bad == ~IsSome(choice) \/ ~is_stop(resp.choices[1].finish_reason)
    IN  [ok |-> ~bad,
         err |-> IF bad THEN ErrDetail(<<>>, "UnexpectedResponse", "rejected") ELSE NoError,
         out |-> IF accepts THEN writeln(to_string(resp)) ELSE <<>>,
         dest |-> IF accepts THEN "accepted" ELSE "refused"]

\* show_response: what it returns, the bytes that reached dest and what dest
\* did.  The rendered line of a bounded Response is shorter than the
\* BufWriter's buffer (8 KiB), so writeln! only fills the buffer and returns
\* Ok; the bytes go to dest when the BufWriter is dropped at the return, and
\* that drop ignores the error of its flush.  A BufWriter dropped empty does
\* not touch dest.
show_response(accepts, format, resp) ==
    LET choice == sole_choice(resp)
    IN  IF ~IsSome(choice)
        THEN [ok |-> FALSE,
              err |-> ErrDetail(<<>>, "UnexpectedResponse",
                                "Unexpected number of choices in response"),
              out |-> <<>>, dest |-> "untouched"]
        ELSE IF ~is_stop(Unwrap(choice).finish_reason)
        THEN [ok |-> FALSE,
              err |-> ErrDetail(<<>>, "UnexpectedResponse",
                                "Received unrecognized stop reason for choice"),
              out |-> <<>>, dest |-> "untouched"]
        ELSE LET output == render(format, resp, Unwrap(choice))
             IN  [ok |-> TRUE,
                  err |-> NoError,
                  out |-> IF accepts THEN writeln(output) ELSE <<>>,
                  dest |-> IF accepts THEN "accepted" ELSE "refused"]

\* exec, lines 51-52: show_response(io::stdout(), ..)?; Ok(()).  Standard
\* output takes the bytes or refuses them (closed pipe, full device).
ShowResponse ==
    /\ pc = "show"
    /\ \E accepts \in BOOLEAN :
          LET r == show_response(accepts, args.output_format, response)
          IN  /\ out' = r.out
              /\ dest' = r.dest
              /\ IF r.ok
                 THEN /\ pc' = "done"
                      /\ UNCHANGED err
                 ELSE Fail(r.err)
    /\ UNCHANGED <<rvars, cmdline, args, client, channel, stdin_reads, file_msgs,
                   msgs, request, wire, sent>>

-----------------------------------------------------------------------------

Next ==
    \/ ParseArgs
    \/ ClientNew
    \/ ReadMessagesFromFile
    \/ MergeMessages
    \/ BuildRequest
    \/ CreateResponse
    \/ Receive(SampleReplies)
    \/ DecodeReply
    \/ ShowResponse

Spec == Init /\ [][Next]_vars

-----------------------------------------------------------------------------
(* One request that is out, and every reply to it *)

SentCommandLine ==
    [flags |-> <<[flag |-> "u", value |-> FlagValue(1)]>>,
     file |-> "-",
     api_key |-> Some("ABCDE"),
     model |-> "gpt-5",
     temperature |-> "0.7",
     timeout |-> 30,
     reasoning_effort |-> None,
     output_format |-> "Plaintext"]

\* The run of SentCommandLine on a terminal, as CreateResponse leaves it.
InitReply ==
    /\ cmdline = SentCommandLine
    /\ pc = "awaiting"
    /\ args = ChatCompletionArgs_from(cmdline)
    /\ client = Client_new(args.api_key)
    /\ channel = [is_terminal |-> TRUE, opens |-> FALSE, reads |-> FALSE, text |-> <<>>]
    /\ stdin_reads = 0
    /\ file_msgs = <<>>
    /\ msgs = concat(args.messages, file_msgs)
    /\ request = build_request(args, msgs)
    /\ wire = post(client, Unwrap(client.api_key), request)
    /\ sent = 1
    /\ err = NoError
    /\ reply = <<>>
    /\ branch = "none"
    /\ response = <<>>
    /\ out = <<>>
    /\ dest = "untouched"

NextReply ==
    \/ \E k \in 0..MaxItems, m \in 0..MaxSegments : Receive(SuccessReplies(k, m))
    \/ Receive(OtherReplies)
    \/ DecodeReply
    \/ ShowResponse

SpecReply == InitReply /\ [][NextReply]_vars

-----------------------------------------------------------------------------
(* The renderer alone, on every Response *)

Choices ==
    [message : [role : {"Assistant", "User"}, content : {<<"h", "i">>, <<>>}],
     finish_reason : FinishReason]

\* Responses with n Choices; created is on a whole second or between two.
Responses(n) ==
    [created : {DateTime(1688413145, 0), DateTime(1688413145, 500000000)},
     choices : [1..n -> Choices],
     model : {"gpt-5"},
     usage : Usages]

\* show_response is called with a Response and an output format, as the unit
\* tests of exec/chat.rs call it.
InitShow ==
    \E n \in 0..MaxChoices, f \in OutputFormat :
        /\ cmdline = [SentCommandLine EXCEPT !.output_format = f]
        /\ pc = "show"
        /\ args = ChatCompletionArgs_from(cmdline)
        /\ client = Client_new(args.api_key)
        /\ channel = [is_terminal |-> TRUE, opens |-> FALSE, reads |-> FALSE, text |-> <<>>]
        /\ stdin_reads = 0
        /\ file_msgs = <<>>
        /\ msgs = concat(args.messages, file_msgs)
        /\ request = build_request(args, msgs)
        /\ wire = post(client, Unwrap(client.api_key), request)
        /\ sent = 1
        /\ err = NoError
        /\ reply = <<>>
        /\ branch = "none"
        /\ response \in Responses(n)
        /\ out = <<>>
        /\ dest = "untouched"

NextShow == ShowResponse

SpecShow == InitShow /\ [][NextShow]_vars

-----------------------------------------------------------------------------
(* Where a run stands *)

\* the side channel has been looked at
Looked == pc \notin {"parse", "client", "read"}

\* the empty-conversation check has been made
Checked ==
    pc \in {"build", "create_response", "awaiting", "status", "show", "done", "failed"}

\* the text has a character that is not whitespace
HasNonWhitespace(t) == \E i \in DOMAIN t : ~IsWhitespace(t[i])

\* the side channel was consulted without error
SideOk == (args.file = "-" /\ channel.is_terminal) \/ channel.reads

\* the side channel has a message to give
SideYields == channel.reads /\ HasNonWhitespace(channel.text)

FailedToOpen == err.context = <<"failed to open", args.file>>

-----------------------------------------------------------------------------
(* The message assembler *)

\* The -u and -a flags of the command line, in command-line order, as messages.
FlagMessagesInOrder(flags) ==
    LET ua == SelectSeq(flags, LAMBDA f : f.flag # "s")
    IN  [k \in DOMAIN ua |->
            [role |-> IF ua[k].flag = "u" THEN "User" ELSE "Assistant",
             content |-> ua[k].value]]

\* C1: the flag-assembled list holds exactly the -u/-a messages in ascending
\* command-line position, each with the role of its flag and its text, none
\* lost or duplicated.
C1_FlagOrder ==
    pc # "parse" =>
        /\ SelectSeq(args.messages, LAMBDA m : m.role # "System")
               = FlagMessagesInOrder(cmdline.flags)
        /\ Len(args.messages) = Len(cmdline.flags)

\* -u 1 -a 2 -u 3 has been parsed into user, assistant, user
C1_Witness ==
    /\ pc = "client"
    /\ Len(cmdline.flags) = 3
    /\ cmdline.flags[1].flag = "u"
    /\ cmdline.flags[2].flag = "a"
    /\ cmdline.flags[3].flag = "u"
    /\ args.messages = <<Message_user(<<"1">>), Message_assistant(<<"2">>),
                         Message_user(<<"3">>)>>

SystemSupplied == \E i \in DOMAIN cmdline.flags : cmdline.flags[i].flag = "s"

SystemPositions(ms) == {i \in DOMAIN ms : ms[i].role = "System"}

\* C2: in the Conversation that is sent, a supplied system message is the one
\* System message and sits at the first position, wherever -s stood and whether
\* or not side-channel messages were appended; with no -s no message is System.
C2_SystemFirst ==
    pc = "awaiting" =>
        /\ SystemPositions(request.messages)
               = IF SystemSupplied THEN {1} ELSE {}
        /\ {i \in DOMAIN wire.json.input :
                wire.json.input[i].role = JsonString("system")}
               = IF SystemSupplied THEN {1} ELSE {}

\* -s was the last of three flags, the side channel gave a message, and the
\* request is out
C2_Witness ==
    /\ pc = "awaiting"
    /\ Len(cmdline.flags) = 3
    /\ cmdline.flags[3].flag = "s"
    /\ file_msgs # <<>>
    /\ request.messages[1] = Message_system(<<"3">>)

\* C3: the Conversation is the flag-assembled sequence followed by the
\* side-channel messages: a side-channel user message is the last entry of the
\* request's input and every flag-derived message stands before it.
C3_SideChannelLast ==
    pc = "awaiting" =>
        LET input == wire.json.input
            n == Len(cmdline.flags)
        IN  /\ Len(input) = n + (IF SideYields THEN 1 ELSE 0)
            /\ \A i \in 1..n :
                   \E j \in DOMAIN cmdline.flags :
                       input[i].content[1].text = JsonString(cmdline.flags[j].value)
            /\ SideYields =>
                   /\ input[Len(input)].role = JsonString("user")
                   /\ input[Len(input)].content[1].text = JsonString(channel.text)

\* two flags and a side-channel message went out in one request
C3_Witness ==
    /\ pc = "awaiting"
    /\ Len(cmdline.flags) = 2
    /\ SideYields
    /\ Len(wire.json.input) = 3

\* C4: the empty-conversation check is made once, on the merged sequence:
\* with the side channel consulted, exec fails with NoMessagesProvided exactly
\* when flags and side channel together give no message; a run in which only
\* one of them gives a message does not fail with it; no request is sent when
\* it fails.
C4_EmptyCheckOnMerged ==
    Checked =>
        /\ err.source = "NoMessagesProvided"
               <=> (SideOk /\ Len(cmdline.flags) = 0 /\ ~SideYields)
        /\ err.source = "NoMessagesProvided" => (pc = "failed" /\ sent = 0)

\* no flags, and a standard input that is not a terminal and holds one blank:
\* the run failed with NoMessagesProvided
C4_Witness ==
    /\ pc = "failed"
    /\ err.source = "NoMessagesProvided"
    /\ cmdline.flags = <<>>
    /\ args.file = "-"
    /\ ~channel.is_terminal
    /\ channel.text = <<" ">>

\* C5: a side channel that was read gives exactly one user message holding the
\* full text, untrimmed, when the text has a non-whitespace character, and no
\* message when the text is empty or all whitespace.
C5_SideChannelMessage ==
    (Looked /\ channel.reads) =>
        IF HasNonWhitespace(channel.text)
        THEN file_msgs = <<[role |-> "User", content |-> channel.text]>>
        ELSE file_msgs = <<>>

\* the text " x" was read and became one user message
C5_Witness ==
    /\ pc = "merge"
    /\ channel.reads
    /\ channel.text = <<" ", "x">>
    /\ Len(file_msgs) = 1

\* C6: with path "-", an interactive standard input is never read and gives
\* zero messages without error; a non-interactive standard input with no
\* content gives zero messages without error.
C6_StdinOnlyWhenNotTerminal ==
    (Looked /\ args.file = "-") =>
        /\ channel.is_terminal =>
               (stdin_reads = 0 /\ file_msgs = <<>> /\ ~FailedToOpen)
        /\ (~channel.is_terminal /\ channel.reads /\ channel.text = <<>>) =>
               (file_msgs = <<>> /\ ~FailedToOpen)

\* the path was "-", standard input a terminal, and the run went on to send
\* its flag messages
C6_Witness ==
    /\ pc = "awaiting"
    /\ args.file = "-"
    /\ channel.is_terminal
    /\ stdin_reads = 0

\* C7: with a path other than "-" that does not open, the run fails with an
\* error naming the path, whatever flags and credential were given, and no
\* request is sent.
C7_OpenFailureNamesPath ==
    (Looked /\ args.file # "-" /\ ~channel.opens) =>
        /\ pc = "failed"
        /\ err.context = <<"failed to open", cmdline.file>>
        /\ sent = 0

\* the file did not open although flags and a credential were given
C7_Witness ==
    /\ pc = "failed"
    /\ args.file = "notes.txt"
    /\ ~channel.opens
    /\ Len(cmdline.flags) > 0
    /\ IsSome(cmdline.api_key)
    /\ err.context = <<"failed to open", "notes.txt">>

-----------------------------------------------------------------------------
(* The request encoder *)

EffortToken == [Low |-> "low", Medium |-> "medium", High |-> "high"]

\* C8: the payload has a "reasoning" key exactly when an effort was set; when
\* set to e the value is the object {"effort": e}, e one of low, medium, high.
C8_ReasoningKey ==
    pc = "awaiting" =>
        LET payload == wire.json
            set == IsSome(cmdline.reasoning_effort)
        IN  /\ IsSome(request.reasoning) <=> set
            /\ "reasoning" \in DOMAIN payload <=> set
            /\ set =>
                   /\ payload["reasoning"]
                          = [effort |-> JsonString(EffortToken[cmdline.reasoning_effort[1]])]
                   /\ payload["reasoning"].effort.v \in {"low", "medium", "high"}

\* a request with effort High went out with {"effort": "high"}
C8_Witness ==
    /\ pc = "awaiting"
    /\ cmdline.reasoning_effort = Some("High")
    /\ wire.json["reasoning"].effort = JsonString("high")

RoleToken == [System |-> "system", User |-> "user", Assistant |-> "assistant"]

\* C9: the payload's input has one entry per Conversation message, in order;
\* entry i has the lowercase role token of message i and a content list of one
\* segment of type "text" whose text is message i's content.
C9_InputEntries ==
    pc = "awaiting" =>
        LET input == wire.json.input
        IN  /\ Len(input) = Len(request.messages)
            /\ request.messages = msgs
            /\ \A i \in DOMAIN input :
                   /\ DOMAIN input[i] = {"role", "content"}
                   /\ input[i].role = JsonString(RoleToken[request.messages[i].role])
                   /\ input[i].role.v \in {"system", "user", "assistant"}
                   /\ Len(input[i].content) = 1
                   /\ input[i].content[1]
                          = [type |-> JsonString("text"),
                             text |-> JsonString(request.messages[i].content)]

\* a system, a user and an assistant message went out as three entries
C9_Witness ==
    /\ pc = "awaiting"
    /\ Len(wire.json.input) = 3
    /\ wire.json.input[1].role = JsonString("system")
    /\ wire.json.input[2].role = JsonString("user")
    /\ wire.json.input[3].role = JsonString("assistant")

\* C10: the payload's keys are exactly model, input and temperature, plus
\* reasoning when set; model and temperature carry the request's values
\* unchanged; the timeout is in no key and is the deadline of the transport call.
C10_PayloadFrame ==
    pc = "awaiting" =>
        /\ DOMAIN wire.json
               = {"model", "input", "temperature"}
                 \cup (IF IsSome(request.reasoning) THEN {"reasoning"} ELSE {})
        /\ wire.json.model = JsonString(request.model)
        /\ wire.json.temperature = JsonNumber(request.temperature)
        /\ wire.timeout = request.timeout

\* The part of C10 that does not depend on the temperature's value.
PayloadKeysAndDeadline ==
    pc = "awaiting" =>
        /\ DOMAIN wire.json
               = {"model", "input", "temperature"}
                 \cup (IF IsSome(request.reasoning) THEN {"reasoning"} ELSE {})
        /\ wire.json.model = JsonString(request.model)
        /\ wire.timeout = request.timeout

-----------------------------------------------------------------------------
(* The transport client *)

\* the HTTP success statuses
SuccessStatuses == 200..299

\* create_response has taken a branch on the reply's status
Branched == branch # "none"

\* C11: every success status leads to decoding the body with the success
\* schema and every non-success status to decoding it with the provider-error
\* schema; no status takes the other branch.
C11_StatusBranch ==
    Branched => (branch = "success" <=> reply.status \in SuccessStatuses)

\* What the code does: only 200 takes the success branch.
BranchOnOkOnly ==
    Branched => (branch = "success" <=> reply.status = 200)

\* C12: for every reply with a non-success status create_response returns
\* OpenAIError carrying the envelope's message, type, param and code unchanged;
\* never a parse or fetch error.
C12_RejectionAlways ==
    (Branched /\ reply.status \notin SuccessStatuses) =>
        /\ pc = "failed"
        /\ err.source = "OpenAIError"
        /\ reply.body.schema = "error"
        /\ err.detail = reply.body.value

\* The part of C12 that holds: a non-200 reply whose body is an error envelope
\* ends in OpenAIError with the envelope unchanged.
RejectionCarriesEnvelope ==
    (Branched /\ reply.status # 200 /\ reply.body.schema = "error") =>
        /\ pc = "failed"
        /\ err.source = "OpenAIError"
        /\ err.detail = reply.body.value

\* C13: at most one request is sent in a run, and exactly one once the
\* assembly and the credential check have passed; a run that failed in the
\* transport, in a provider rejection, in decoding or in normalization has
\* sent one request and no second one.
C13_OneRequest ==
    /\ sent <= 1
    /\ pc \in {"awaiting", "status", "show", "done"} => sent = 1
    /\ pc = "failed" =>
          (sent = 1 <=> err.source \in {"FailedToFetch", "OpenAIError",
                                        "UnexpectedResponse"})

\* the deadline passed on the one request of the run
C13_Witness ==
    /\ pc = "failed"
    /\ err.source = "FailedToFetch"
    /\ err.detail = "timeout"
    /\ sent = 1

\* C14 as stated: without a credential the run fails with "no API key
\* provided" and no request is attempted.
C14_AlwaysNoApiKey ==
    (~IsSome(cmdline.api_key) /\ pc = "failed") =>
        /\ err.source = "NoAPIKey"
        /\ sent = 0

\* C14: without a credential no request is ever sent and the run never gets a
\* reply; it fails with "no API key provided" when the conversation it merged
\* is not empty, and with the earlier failure otherwise.
C14_NoCredentialNoRequest ==
    ~IsSome(cmdline.api_key) =>
        /\ sent = 0
        /\ pc \notin {"awaiting", "status", "show", "done"}
        /\ (pc = "failed" /\ msgs # <<>>) =>
               err = Err(<<"failed to fetch request">>, "NoAPIKey")
        /\ (pc = "failed" /\ msgs = <<>>) => err.source # "NoAPIKey"

\* a run with a message and no credential stopped at the credential check
C14_Witness ==
    /\ ~IsSome(cmdline.api_key)
    /\ pc = "failed"
    /\ msgs # <<>>
    /\ err.source = "NoAPIKey"
    /\ sent = 0

-----------------------------------------------------------------------------
(* The response normalizer *)

\* the normalizer has run on the body of the reply
Normalized ==
    /\ branch = "success"
    /\ reply.body.schema = "success"

\* the normalizer returned a Response: the run is at the renderer, is over,
\* or failed in the renderer, whose errors carry no context
Returned ==
    /\ Normalized
    /\ \/ pc \in {"show", "done"}
       \/ pc = "failed" /\ err.context = <<>>

\* the normalizer returned the error with this text
Rejected(text) ==
    /\ Normalized
    /\ pc = "failed"
    /\ err.source = "UnexpectedResponse"
    /\ err.detail = text

RawOutput == reply.body.value.output

\* the items of type message, in payload order
MessageItems(outputs) == SelectSeq(outputs, LAMBDA o : o.item_type = "message")

RECURSIVE JoinTexts(_)
\* the texts of the output_text and text segments, one after the other
JoinTexts(segments) ==
    IF segments = <<>>
    THEN <<>>
    ELSE (IF Head(segments).type \in {"output_text", "text"}
          THEN Head(segments).text
          ELSE <<>>) \o JoinTexts(Tail(segments))

\* C15: an item whose type is not "message" gives no Choice and no error,
\* whatever it carries; an output without a message item is rejected with the
\* "no assistant output" error.
C15_SkipsNonMessage ==
    Normalized =>
        LET items == MessageItems(RawOutput)
        IN  /\ Returned => Len(response.choices) = Len(items)
            /\ (items # <<>> /\ \A i \in DOMAIN items : JoinTexts(items[i].content) # <<>>)
                   => Returned
            /\ items = <<>>
                   => Rejected("response did not contain any assistant messages")

\* a reasoning item that carries text stands before the one message item, and
\* one Choice is returned
C15_Witness ==
    /\ Returned
    /\ Len(RawOutput) = 2
    /\ RawOutput[1].item_type = "reasoning"
    /\ JoinTexts(RawOutput[1].content) # <<>>
    /\ Len(response.choices) = 1

\* C16: a Choice's content is the texts of its item's output_text and text
\* segments joined in segment order without a separator; other segments add
\* nothing and do not stop the normalization.
C16_ContentIsJoinedText ==
    Returned =>
        LET items == MessageItems(RawOutput)
        IN  /\ DOMAIN response.choices = DOMAIN items
            /\ \A i \in DOMAIN items :
                   response.choices[i].message.content = JoinTexts(items[i].content)

\* an output_text and a text segment gave "ab"; elsewhere a segment of another
\* type stood beside a text
C16_Witness ==
    /\ Returned
    /\ RawOutput[1].item_type = "message"
    /\ Len(RawOutput[1].content) = 2
    /\ RawOutput[1].content[1].type = "output_text"
    /\ RawOutput[1].content[2].type = "text"
    /\ response.choices[1].message.content = <<"a", "b">>

\* C17: when a message item has no text at all the whole normalization fails
\* with "missing text content", whatever the other items carry; "no assistant
\* output" is returned only when there is no message item.
C17_MissingTextRejects ==
    Normalized =>
        LET items == MessageItems(RawOutput)
        IN  /\ (\E i \in DOMAIN items : JoinTexts(items[i].content) = <<>>)
                   => Rejected("response message missing text content")
            /\ Rejected("response did not contain any assistant messages")
                   => items = <<>>
            /\ Rejected("response message missing text content")
                   => \E i \in DOMAIN items : JoinTexts(items[i].content) = <<>>

\* a message item with text is followed by one without, and the reply is
\* rejected
C17_Witness ==
    /\ Rejected("response message missing text content")
    /\ Len(RawOutput) = 2
    /\ RawOutput[1].item_type = "message"
    /\ JoinTexts(RawOutput[1].content) # <<>>
    /\ RawOutput[2].item_type = "message"
    /\ JoinTexts(RawOutput[2].content) = <<>>

\* C18: a returned Response has one Choice per message item, in payload
\* order, each with finish_reason Stop and with the item's role, or Assistant
\* when the item has none.
C18_ChoicePerMessage ==
    Returned =>
        LET items == MessageItems(RawOutput)
        IN  /\ Len(response.choices) = Len(items)
            /\ \A i \in DOMAIN items :
                   /\ response.choices[i].finish_reason = "Stop"
                   /\ response.choices[i].message.role
                          = (IF items[i].role = None THEN "Assistant"
                             ELSE items[i].role[1])
                   /\ response.choices[i].message.content = JoinTexts(items[i].content)

\* two message items, the first declaring User and saying "b", the second
\* without a role and saying "a", gave two Choices in that order
C18_Witness ==
    /\ Returned
    /\ Len(RawOutput) = 2
    /\ RawOutput[1].role = Some("User")
    /\ RawOutput[2].item_type = "message"
    /\ RawOutput[2].role = None
    /\ Len(response.choices) = 2
    /\ response.choices[1].message = [role |-> "User", content |-> <<"b">>]
    /\ response.choices[2].message = [role |-> "Assistant", content |-> <<"a">>]

\* C19: a returned Response has at least one Choice and no Choice with empty
\* content.
C19_NonEmptyResponse ==
    pc = "show" =>
        /\ Len(response.choices) >= 1
        /\ \A i \in DOMAIN response.choices :
               response.choices[i].message.content # <<>>

\* a message item with an empty text segment beside a non-empty one was
\* returned
C19_Witness ==
    /\ Returned
    /\ \E i \in DOMAIN RawOutput :
           /\ RawOutput[i].item_type = "message"
           /\ \E j \in DOMAIN RawOutput[i].content :
                  /\ RawOutput[i].content[j].type = "text"
                  /\ RawOutput[i].content[j].text = <<>>

\* C20: every Choice of a returned Response has the role Assistant, also when
\* the message item declares another role.
C20_AlwaysAssistant ==
    pc = "show" =>
        \A i \in DOMAIN response.choices :
            response.choices[i].message.role = "Assistant"

\* What the code does: a Choice has the role Assistant exactly when its item
\* declares Assistant or no role.
RoleIsDeclaredRole ==
    Returned =>
        LET items == MessageItems(RawOutput)
        IN  \A i \in DOMAIN items :
                i \in DOMAIN response.choices =>
                    (response.choices[i].message.role = "Assistant"
                        <=> items[i].role \in {None, Some("Assistant")})

\* C21: created, model and the three usage counts of a returned Response are
\* those of the payload, unchanged; no payload is rejected for its counts,
\* which need not add up.
C21_TopLevelCopied ==
    /\ Returned =>
          /\ response.created = reply.body.value.created
          /\ response.model = reply.body.value.model
          /\ response.usage.input_tokens = reply.body.value.usage.input_tokens
          /\ response.usage.output_tokens = reply.body.value.usage.output_tokens
          /\ response.usage.total_tokens = reply.body.value.usage.total_tokens
    /\ (Normalized /\ ~Returned) =>
          \/ Rejected("response message missing text content")
          \/ Rejected("response did not contain any assistant messages")

\* a payload whose total is not the sum of the other two counts was returned
\* with its counts
C21_Witness ==
    /\ Returned
    /\ reply.body.value.usage.total_tokens
           # reply.body.value.usage.input_tokens + reply.body.value.usage.output_tokens
    /\ response.usage = reply.body.value.usage

-----------------------------------------------------------------------------
(* The output renderer *)

\* show_response returned an error; its errors carry no context
ShowFailed ==
    /\ pc = "failed"
    /\ err.context = <<>>
    /\ err.source \in {"UnexpectedResponse", "Error::IO", "JSON"}

\* show_response has returned
Shown == pc = "done" \/ ShowFailed

\* show_response returned the UnexpectedResponse error with this text
ShowRejected(text) ==
    /\ ShowFailed
    /\ err.source = "UnexpectedResponse"
    /\ err.detail = text

\* a piece of written text that is only white space
IsLayout(piece) == piece \in {"\n", "  ", " "}

\* the written text without its layout
WithoutLayout(pieces) == SelectSeq(pieces, LAMBDA piece : ~IsLayout(piece))

\* C22: the renderer succeeds only for a Response with exactly one Choice;
\* with none or with two or more it fails with the "unexpected number of
\* choices" error, in every format and for every finish reason.
C22_OneChoiceOnly ==
    Shown =>
        /\ pc = "done" => Len(response.choices) = 1
        /\ Len(response.choices) # 1
               => ShowRejected("Unexpected number of choices in response")

\* two Choices, both Stop, asked for as JSON, were refused
C22_Witness ==
    /\ ShowRejected("Unexpected number of choices in response")
    /\ Len(response.choices) = 2
    /\ \A i \in 1..2 : response.choices[i].finish_reason = "Stop"
    /\ args.output_format = "JSON"

\* C23: with exactly one Choice the renderer gives output exactly when the
\* finish reason is Stop; for every other reason it returns the "stop reason"
\* error in every format and renders nothing.
C23_StopOnly ==
    (Shown /\ Len(response.choices) = 1) =>
        /\ pc = "done" <=> response.choices[1].finish_reason = "Stop"
        /\ response.choices[1].finish_reason # "Stop"
               => /\ ShowRejected("Received unrecognized stop reason for choice")
                  /\ out = <<>>
        /\ (pc = "done" /\ dest = "accepted") => out # <<>>

\* a sole Choice that ended with Length and has content, asked for as pretty
\* JSON, was refused
C23_Witness ==
    /\ ShowFailed
    /\ Len(response.choices) = 1
    /\ response.choices[1].finish_reason = "Length"
    /\ response.choices[1].message.content # <<>>
    /\ args.output_format = "JSONPretty"

\* C24: what reaches the destination of a rendered Response is one line and
\* nothing else: the sole Choice's content in Plaintext, the compact
\* serialization of the Response in JSON, the indented one in JSONPretty,
\* each followed by one newline.
C24_RenderedLine ==
    (pc = "done" /\ dest = "accepted") =>
        LET content == response.choices[1].message.content
        IN  /\ args.output_format = "Plaintext" => out = content \o <<"\n">>
            /\ args.output_format = "JSON"
                   => /\ out = to_string(response) \o <<"\n">>
                      /\ \A i \in 1..(Len(out) - 1) : ~IsLayout(out[i])
                      /\ out[1] = "{"
                      /\ out[Len(out) - 1] = "}"
            /\ args.output_format = "JSONPretty"
                   => /\ out = to_string_pretty(response) \o <<"\n">>
                      /\ WithoutLayout(out) = to_string(response)
                      /\ SubSeq(out, 1, 3) = <<"{", "\n", "  ">>
                      /\ SubSeq(out, Len(out) - 2, Len(out)) = <<"\n", "}", "\n">>

\* the indented serialization of a Response with content "hi" was written
C24_Witness ==
    /\ pc = "done"
    /\ dest = "accepted"
    /\ args.output_format = "JSONPretty"
    /\ response.choices[1].message.content = <<"h", "i">>
    /\ \E i \in 1..(Len(out) - 5) :
           SubSeq(out, i, i + 5) = <<"content", "\"", ":", " ", "\"", "h">>

\* C25: when show_response reports success every rendered byte has reached
\* the destination, also when the destination fails during the flush.
C25_SuccessMeansDelivered ==
    pc = "done" =>
        /\ dest = "accepted"
        /\ out # <<>>

\* What holds instead: a success whose destination took the bytes has all of
\* them, and one whose destination refused them has none.
DeliveredOrLost ==
    pc = "done" =>
        \/ dest = "accepted" /\ out # <<>> /\ out[Len(out)] = "\n"
        \/ dest = "refused" /\ out = <<>>

\* C30: when show_response returns an error because of the Response (wrong
\* number of Choices, a finish reason other than Stop) or of its encoding,
\* nothing has been written: the destination is untouched.
C30_NothingWrittenOnError ==
    ShowFailed =>
        /\ out = <<>>
        /\ dest = "untouched"

\* two Choices were refused and the destination is untouched
C30_Witness ==
    /\ ShowRejected("Unexpected number of choices in response")
    /\ Len(response.choices) = 2
    /\ response.choices[1].message.content # <<>>
    /\ out = <<>>
    /\ dest = "untouched"

-----------------------------------------------------------------------------
(* The failures of a run *)

\* the variants of Error
ErrorKinds ==
    {"NoAPIKey", "FailedToFetch", "NoMessagesProvided", "UnexpectedResponse",
     "Error::IO", "JSON", "OpenAIError"}

\* The causes of failure, told from what the run met, not from its error.
\* The side channel could not be opened or read.
CauseUnreadable == pc \notin {"parse", "client", "read"} /\ ~SideOk
\* The side channel was consulted and nothing was there to send.
CauseNoMessages ==
    /\ pc \notin {"parse", "client", "read", "merge"}
    /\ SideOk
    /\ msgs = <<>>
\* There was something to send and no credential.
CauseNoCredential ==
    /\ pc \notin {"parse", "client", "read", "merge", "build", "create_response"}
    /\ msgs # <<>>
    /\ ~IsSome(cmdline.api_key)
\* The request went out and no reply came.
CauseTransport == pc = "failed" /\ sent = 1 /\ ~Branched
\* A reply with a non-success status and a provider-error envelope came.
CauseRejection ==
    /\ Branched
    /\ reply.status \notin SuccessStatuses
    /\ reply.body.schema = "error"
\* A 200 reply came whose output is not one message item with text.
CauseNormalization ==
    /\ Branched
    /\ reply.status = 200
    /\ reply.body.schema = "success"
    /\ LET items == MessageItems(RawOutput)
       IN  \/ Len(items) # 1
           \/ \E i \in DOMAIN items : JoinTexts(items[i].content) = <<>>

-----------------------------------------------------------------------------
(* Encoding a Response and decoding it *)

\* Serialize, then Deserialize
RoundTrip(resp) == Response_deserialize(Response_serialize(resp))

C27_RoundTripWholeSeconds ==
    pc \in {"show", "done"} =>
        LET back == RoundTrip(response)
        IN  /\ back.created = DateTime(response.created.secs, 0)
            /\ back.model = response.model
            /\ back.usage = response.usage
            /\ back.choices = response.choices
            /\ response.created.nanos = 0 => back = response

-----------------------------------------------------------------------------
(* The order of the checks *)

\* C28: a file that cannot be opened is reported before the conversation is
\* checked for emptiness; an empty conversation is reported before the
\* credential is missed; a missing credential is reported before anything is
\* sent. With no messages and no credential the run reports "no messages
\* provided".
C28_Precedence ==
    pc = "failed" =>
        /\ err.source = "NoAPIKey" =>
              /\ err.context = <<"failed to fetch request">>
              /\ msgs # <<>>
        /\ ~SideOk =>
              /\ FailedToOpen
              /\ err.source \in {"io::Error", "Error::IO"}
              /\ sent = 0
        /\ (SideOk /\ msgs = <<>>) =>
              /\ err = Err(<<>>, "NoMessagesProvided")
              /\ Error_display(err.source) = "no messages provided"
              /\ sent = 0
        /\ (SideOk /\ msgs # <<>> /\ ~IsSome(cmdline.api_key)) =>
              /\ err = Err(<<"failed to fetch request">>, "NoAPIKey")
              /\ sent = 0
              /\ ~Branched

\* a run with no messages and no credential reported the empty conversation
C28_Witness ==
    /\ pc = "failed"
    /\ SideOk
    /\ msgs = <<>>
    /\ ~IsSome(cmdline.api_key)
    /\ err.source = "NoMessagesProvided"

\* a run with flag messages, no credential and a file that does not open
\* reported the file
C28_WitnessFile ==
    /\ pc = "failed"
    /\ ~SideOk
    /\ cmdline.flags # <<>>
    /\ ~IsSome(cmdline.api_key)
    /\ FailedToOpen

-----------------------------------------------------------------------------
(* From the reply to the rendered output *)

\* the run is over and its reply carried a body of the success schema
EndedOnSuccessBody ==
    /\ pc \in {"done", "failed"}
    /\ Branched
    /\ reply.body.schema = "success"

\* the output list holds exactly one message item, and it has text
OneMessageWithText ==
    LET items == MessageItems(RawOutput)
    IN  /\ Len(items) = 1
        /\ JoinTexts(items[1].content) # <<>>

\* the output list holds two or more message items, each with text
SeveralMessagesWithText ==
    LET items == MessageItems(RawOutput)
    IN  /\ Len(items) >= 2
        /\ \A i \in DOMAIN items : JoinTexts(items[i].content) # <<>>

\* what holds of a run whose reply is in `statuses`
RenderedIffOneMessage(statuses) ==
    (EndedOnSuccessBody /\ reply.status \in statuses) =>
        /\ pc = "done" <=> OneMessageWithText
        /\ SeveralMessagesWithText =>
              /\ Returned
              /\ Len(response.choices) = Len(MessageItems(RawOutput))
              /\ ShowRejected("Unexpected number of choices in response")
        /\ ~(Returned /\ ShowRejected("Received unrecognized stop reason for choice"))

\* C29: a reply with a success status leads to rendered output if and only if
\* its output list holds exactly one message item, with text; with two or more
\* such items it passes the normalizer and fails in the renderer on the number
\* of choices; the renderer's finish-reason error is not reached.
C29_RenderedIffOneMessage == RenderedIffOneMessage(SuccessStatuses)

\* What the code does: the same, for a reply with status 200.
C29_RenderedIffOneMessageOn200 == RenderedIffOneMessage({StatusCode_OK})

\* a 200 reply with two message items failed in the renderer
C29_WitnessOn200 ==
    /\ EndedOnSuccessBody
    /\ reply.status = StatusCode_OK
    /\ SeveralMessagesWithText
    /\ ShowRejected("Unexpected number of choices in response")

====
